---- MODULE Spec2Model ----
(***************************************************************************)
(* A model of src/render.cu: the heat colour table (heat_lut), the affine  *)
(* map (clamp), the escape-time kernel (mykernel) and the host side        *)
(* orchestrator (render) with its device buffer life cycle.                *)
(*                                                                         *)
(* Numbers.  A C++ `float` is modelled as follows.                         *)
(*  - int -> float conversions and the division of the launch geometry     *)
(*    (line 104-105) round to the 24 bit significand of binary32.          *)
(*  - clamp and heat_lut compute in exact rationals <<num, den>>; the      *)
(*    cast static_cast<uint8_t> truncates.                                 *)
(*  - the escape loop, whose exact values double their size at every       *)
(*    step, computes in fixed point with FracBits fractional bits, every   *)
(*    product rounded down.                                                *)
(***************************************************************************)
EXTENDS Integers, Sequences, FiniteSets, TLC

(***************************************************************************)
(* Bounds of the model.                                                    *)
(***************************************************************************)
\* images of 1..MaxWidth columns and 1..MaxHeight rows are followed in full
MaxWidth == 3
MaxHeight == 2
\* one image wider than the float significand is followed on its last columns
WideWidth == 16777217
\* the block edge `bsize` of line 103 (32 in the source), scaled down
bsize == 2
\* row padding, in bytes, of the device pitch and of the host stride
MaxPitchPad == 1
MaxStridePad == 1
\* fractional bits of the fixed point arithmetic of the escape loop
FracBits == 11
\* heat_lut is applied to every p/q with 0 <= p <= q <= MaxDen
MaxDen == 20

\* the bytes an uninitialised device allocation may hold
GarbageBytes == {0, 255}
\* the bytes the caller's buffer holds before the call
HostFills == {0, 255}
\* the values of the n_iterations argument
NIterations == {1, 100}

(***************************************************************************)
(* Program constants.                                                      *)
(***************************************************************************)
\* line 66: int n = 100
n == 100
\* significand width of `float` (the casts of lines 104-105)
FloatMantissa == 24
\* sizeof(rgba8_t), lines 15-20
PixelBytes == 4

(***************************************************************************)
(* Arithmetic.                                                             *)
(***************************************************************************)
RECURSIVE Pow2(_)
Pow2(k) == IF k <= 0 THEN 1 ELSE 2 * Pow2(k - 1)

RECURSIVE GCD(_, _)
GCD(a, b) == IF b = 0 THEN a ELSE GCD(b, a % b)

Abs(a) == IF a < 0 THEN -a ELSE a

\* the rational num/den in lowest terms with a positive denominator
Norm(num, den) ==
    LET g == GCD(Abs(num), Abs(den))
        s == IF den < 0 THEN -1 ELSE 1
    IN  <<(s * num) \div g, (s * den) \div g>>

Rat(k) == <<k, 1>>
RAdd(a, b) == Norm(a[1] * b[2] + b[1] * a[2], a[2] * b[2])
RSub(a, b) == Norm(a[1] * b[2] - b[1] * a[2], a[2] * b[2])
RMul(a, b) == Norm(a[1] * b[1], a[2] * b[2])
RDiv(a, b) == Norm(a[1] * b[2], a[2] * b[1])
RLess(a, b) == a[1] * b[2] < b[1] * a[2]
RLeq(a, b) == a[1] * b[2] <= b[1] * a[2]

\* round to nearest, ties to even, of p/q with p >= 0, q > 0
RoundHalfEven(p, q) ==
    LET f == p \div q
        r == p % q
    IN  IF 2 * r < q THEN f
        ELSE IF 2 * r > q THEN f + 1
        ELSE IF f % 2 = 0 THEN f ELSE f + 1

\* the exponent e >= 0 with p/q < 2^(FloatMantissa + e), least such
RECURSIVE ExpUp(_, _, _)
ExpUp(p, q, e) ==
    IF p < Pow2(FloatMantissa) * q * Pow2(e) THEN e ELSE ExpUp(p, q, e + 1)

\* the largest k >= 0 with p * 2^k < 2^FloatMantissa * q  (p > 0)
RECURSIVE ExpDown(_, _, _)
ExpDown(p, q, k) ==
    IF 2 * p * Pow2(k) < Pow2(FloatMantissa) * q
    THEN ExpDown(p, q, k + 1) ELSE k

\* the binary32 value nearest to the rational r >= 0
FloatRound(r) ==
    LET p == r[1]
        q == r[2]
    IN  IF p = 0 THEN Rat(0)
        ELSE IF p >= Pow2(FloatMantissa) * q
        THEN LET e == ExpUp(p, q, 0)
             IN  Rat(RoundHalfEven(p, q * Pow2(e)) * Pow2(e))
        ELSE LET k == ExpDown(p, q, 0)
             IN  Norm(RoundHalfEven(p * Pow2(k), q), Pow2(k))

\* (float) k for an int k >= 0
ToFloat(k) == FloatRound(Rat(k))

\* std::ceil, then the conversion to int
Ceil(r) == -((-r[1]) \div r[2])

\* a cast that rounds to nearest instead
ToU8Rounds(r) == (2 * r[1] + r[2]) \div (2 * r[2])

\* static_cast<std::uint8_t>(float): the fraction is discarded
ToU8(r) == r[1] \div r[2]

(***************************************************************************)
(* heat_lut, lines 22-47.                                                  *)
(***************************************************************************)
\* line 23: assert(0 <= x && x <= 1)
HeatLutPre(x) == RLeq(Rat(0), x) /\ RLeq(x, Rat(1))

heat_lut(x) ==
    LET x0 == RDiv(Rat(1), Rat(4))
        x1 == RDiv(Rat(2), Rat(4))
        x2 == RDiv(Rat(3), Rat(4))
    IN  IF RLess(x, x0)
        THEN [r |-> 0,
              g |-> ToU8(RMul(RDiv(x, x0), Rat(255))),
              b |-> 255, a |-> 255]
        ELSE IF RLess(x, x1)
        THEN [r |-> 0, g |-> 255,
              b |-> ToU8(RMul(RDiv(RSub(x1, x), x0), Rat(255))),
              a |-> 255]
        ELSE IF RLess(x, x2)
        THEN [r |-> ToU8(RMul(RDiv(RSub(x, x1), x0), Rat(255))),
              g |-> 255, b |-> 0, a |-> 255]
        ELSE [r |-> 0,
              g |-> ToU8(RMul(RDiv(RSub(Rat(1), x), x0), Rat(255))),
              b |-> 0, a |-> 255]

(***************************************************************************)
(* clamp, lines 49-54.                                                     *)
(***************************************************************************)
clamp(a, a1, a2, min, max) ==
    LET percentage == RDiv(RSub(a, a1), RSub(a1, a2))
    IN  RAdd(RMul(percentage, RSub(min, max)), min)

(***************************************************************************)
(* The escape loop of mykernel, lines 66-81, in fixed point.               *)
(***************************************************************************)
One == Pow2(FracBits)

\* floor(r * 2^k / d) for 0 <= r < d
RECURSIVE FracScale(_, _, _)
FracScale(r, d, k) ==
    IF k = 0 THEN 0
    ELSE LET bit == IF 2 * r >= d THEN 1 ELSE 0
         IN  bit * Pow2(k - 1) + FracScale(2 * r - bit * d, d, k - 1)

\* the fixed point number below the rational r
ToFixed(r) == (r[1] \div r[2]) * One + FracScale(r[1] % r[2], r[2], FracBits)

FMul(a, b) == (a * b) \div One

\* line 67, 68
MX0(x, w) ==
    ToFixed(clamp(ToFloat(x), Rat(0), ToFloat(w), <<-5, 2>>, Rat(1)))
MY0(y, h) ==
    ToFixed(clamp(ToFloat(y), Rat(0), ToFloat(h), Rat(-1), Rat(1)))

\* a loop condition that lets the count reach n + 1
LoopCondOffByOne(mx, my, i) ==
    FMul(mx, mx) + FMul(my, my) < 2 * 2 * One /\ i <= n

\* line 76: mx * mx + my * my < 2 * 2 && i < n
LoopCond(mx, my, i) == FMul(mx, mx) + FMul(my, my) < 2 * 2 * One /\ i < n

\* lines 77-80
LoopBody(s, mx0, my0) ==
    LET mxtemp == FMul(s.mx, s.mx) - FMul(s.my, s.my) + mx0
    IN  [mx |-> mxtemp, my |-> FMul(2 * s.mx, s.my) + my0, i |-> s.i + 1]

RECURSIVE Loop(_, _, _)
Loop(s, mx0, my0) ==
    IF LoopCond(s.mx, s.my, s.i) THEN Loop(LoopBody(s, mx0, my0), mx0, my0)
    ELSE s

\* lines 66-81: the iteration count of pixel (x, y)
Escape(x, y, w, h) ==
    Loop([mx |-> 0, my |-> 0, i |-> 0], MX0(x, w), MY0(y, h)).i

\* a scaling by 256 instead of 255
VScaled256(i) == (256 * i) \div n

\* line 84: float v = 255 * i / n, an int division
V(i) == (255 * i) \div n

\* line 85
VClamp(v) == clamp(Rat(v), Rat(0), Rat(255), Rat(0), Rat(1))

\* lines 84-86: the colour of an iteration count
ColorOfCount(i) == heat_lut(VClamp(V(i)))

\* lines 66-86: the colour thread (x, y) computes
PixelColor(x, y, w, h) == ColorOfCount(Escape(x, y, w, h))

(***************************************************************************)
(* State.                                                                  *)
(***************************************************************************)
VARIABLES
    \* render, lines 90-126
    pc,             \* the host's place: "caller", "L97", "L104", "L113",
                    \* "L118", "L123", "returned", "exited"
    width, height, stride, n_iterations,    \* the arguments
    hostBuffer,     \* byte offset -> byte, the caller's buffer
    hostFill,       \* the byte the caller's buffer held before the call
    devState,       \* "none", "live", "freed": the allocation of this call
    devBuffer,      \* byte offset -> byte, the device allocation
    pitch,          \* the pitch cudaMallocPitch chose
    dimGrid,        \* <<w, h>> of line 110
    lastError,      \* the error cudaPeekAtLastError reads
    launched,       \* the kernel has been launched
    tdone,          \* the threads of the grid that have returned
    kwrites,        \* every store of line 87: [off, t]
    steps,          \* the runtime calls of this render: [op, err]
    live,           \* device allocations not freed
    uaf,            \* the device buffer was accessed while not live
    prev,           \* the previous render of the caller, or <<>>
    \* one thread of mykernel, statement by statement
    thr,
    \* heat_lut and the normalisation of lines 84-86, statement by statement
    lut

rvars == <<pc, width, height, stride, n_iterations, hostBuffer, hostFill,
           devState, devBuffer, pitch, dimGrid, lastError, launched, tdone,
           kwrites, steps, live, uaf, prev>>
vars == <<rvars, thr, lut>>

RenderIdle ==
    /\ pc = "caller"
    /\ width = 0 /\ height = 0 /\ stride = 0 /\ n_iterations = 0
    /\ hostBuffer = <<>> /\ hostFill = 0
    /\ devState = "none" /\ devBuffer = <<>> /\ pitch = 0
    /\ dimGrid = <<0, 0>> /\ lastError = FALSE /\ launched = FALSE
    /\ tdone = {} /\ kwrites = {} /\ steps = <<>>
    /\ live = 0 /\ uaf = FALSE /\ prev = <<>>
ThrIdle == thr = [pc |-> "off"]
LutIdle == lut = [pc |-> "off"]

(***************************************************************************)
(* Launch geometry, lines 103-110.                                         *)
(***************************************************************************)
\* std::ceil((float)len / bsize), converted to int
GridDim(len) == Ceil(FloatRound(RDiv(ToFloat(len), ToFloat(bsize))))

\* a bounds check that lets x = width and y = height through
OutOfImageOffByOne(x, y, w, h) == x > w \/ y > h

\* line 63
OutOfImage(x, y, w, h) == x >= w \/ y >= h

(***************************************************************************)
(* LutSpec: heat_lut on a grid of rationals, and on the normalised         *)
(* iteration counts of lines 84-86.                                        *)
(***************************************************************************)
LutInit ==
    /\ RenderIdle /\ ThrIdle
    /\ \/ \E q \in 1..MaxDen : \E p \in 0..q :
            lut = [pc |-> "L23", src |-> "grid", x |-> <<p, q>>]
       \/ \E i \in 0..n : lut = [pc |-> "L84", src |-> "count", i |-> i]

\* line 84
LutV ==
    /\ lut.pc = "L84"
    /\ lut' = [pc |-> "L85", src |-> lut.src, i |-> lut.i, v |-> V(lut.i)]
    /\ UNCHANGED <<rvars, thr>>

\* line 85
LutNormalise ==
    /\ lut.pc = "L85"
    /\ lut' = [pc |-> "L23", src |-> lut.src, i |-> lut.i, v |-> lut.v,
               x |-> VClamp(lut.v)]
    /\ UNCHANGED <<rvars, thr>>

\* line 23
LutAssert ==
    /\ lut.pc = "L23"
    /\ lut' = [lut EXCEPT !.pc = IF HeatLutPre(lut.x) THEN "L25"
                                 ELSE "assert_failed"]
    /\ UNCHANGED <<rvars, thr>>

\* lines 25-46
LutReturn ==
    /\ lut.pc = "L25"
    /\ lut' = [lut EXCEPT !.pc = "ret"] @@ [color |-> heat_lut(lut.x)]
    /\ UNCHANGED <<rvars, thr>>

LutNext == LutV \/ LutNormalise \/ LutAssert \/ LutReturn
LutSpec == LutInit /\ [][LutNext]_vars

(***************************************************************************)
(* KernelSpec: one thread of mykernel, lines 57-88.                        *)
(***************************************************************************)
KernelInit ==
    /\ RenderIdle /\ LutIdle
    /\ \E w \in 1..MaxWidth, h \in 1..MaxHeight :
         \E x \in 0..(GridDim(w) * bsize - 1), y \in 0..(GridDim(h) * bsize - 1) :
            thr = [pc |-> "L63", width |-> w, height |-> h, x |-> x, y |-> y]

\* lines 63-64
KReturnEarly ==
    /\ thr.pc = "L63"
    /\ OutOfImage(thr.x, thr.y, thr.width, thr.height)
    /\ thr' = [thr EXCEPT !.pc = "ret"]
    /\ UNCHANGED <<rvars, lut>>

\* lines 66-74
KSetup ==
    /\ thr.pc = "L63"
    /\ ~OutOfImage(thr.x, thr.y, thr.width, thr.height)
    /\ thr' = [thr EXCEPT !.pc = "L76"] @@
              [mx0 |-> MX0(thr.x, thr.width), my0 |-> MY0(thr.y, thr.height),
               mx |-> 0, my |-> 0, i |-> 0,
               iters |-> 0, pmx |-> 0, pmy |-> 0]
    /\ UNCHANGED <<rvars, lut>>

\* lines 76-81, one turn of the loop
KLoopIter ==
    /\ thr.pc = "L76"
    /\ LoopCond(thr.mx, thr.my, thr.i)
    /\ LET s == LoopBody([mx |-> thr.mx, my |-> thr.my, i |-> thr.i],
                         thr.mx0, thr.my0)
       IN  thr' = [thr EXCEPT !.mx = s.mx, !.my = s.my, !.i = s.i,
                              !.iters = @ + 1, !.pmx = thr.mx, !.pmy = thr.my]
    /\ UNCHANGED <<rvars, lut>>

\* line 76 false
KLoopExit ==
    /\ thr.pc = "L76"
    /\ ~LoopCond(thr.mx, thr.my, thr.i)
    /\ thr' = [thr EXCEPT !.pc = "L83"]
    /\ UNCHANGED <<rvars, lut>>

\* lines 83-87
KStore ==
    /\ thr.pc = "L83"
    /\ thr' = [thr EXCEPT !.pc = "ret"] @@ [color |-> ColorOfCount(thr.i)]
    /\ UNCHANGED <<rvars, lut>>

KernelNext == KReturnEarly \/ KSetup \/ KLoopIter \/ KLoopExit \/ KStore
KernelSpec == KernelInit /\ [][KernelNext]_vars

(***************************************************************************)
(* What the model follows of an image.  An image of at most MaxWidth       *)
(* columns is followed in full: every thread of the grid, every byte of    *)
(* both buffers.  Of the wide image the model follows the last two blocks  *)
(* of columns: the threads of the other blocks store to other slots.       *)
(***************************************************************************)
Widths == (1..MaxWidth) \cup {WideWidth}
Heights == 1..MaxHeight

LastBlock(w) == (w - 1) \div bsize
FirstFollowedBlock(w) ==
    IF w <= MaxWidth \/ LastBlock(w) = 0 THEN 0 ELSE LastBlock(w) - 1
FollowedCols(w) == (FirstFollowedBlock(w) * bsize)..(w - 1)

\* the threads of a grid of gw x gh blocks of bsize x bsize threads
Threads(w, grid) ==
    [bx : FirstFollowedBlock(w)..(grid[1] - 1), by : 0..(grid[2] - 1),
     tx : 0..(bsize - 1), ty : 0..(bsize - 1)]

\* line 60, 61
ThreadX(t) == bsize * t.bx + t.tx
ThreadY(t) == bsize * t.by + t.ty

\* the bytes of one row of a buffer of the given pitch
RowBytes(w, p) ==
    {PixelBytes * x + k : x \in FollowedCols(w), k \in 0..(PixelBytes - 1)}
        \cup ((PixelBytes * w)..(p - 1))
Offsets(w, h, p) == {y * p + b : y \in 0..(h - 1), b \in RowBytes(w, p)}

\* lines 15-20: byte k of a pixel
Channel(color, k) ==
    IF k = 0 THEN color.r ELSE IF k = 1 THEN color.g
    ELSE IF k = 2 THEN color.b ELSE color.a

\* line 83, 87: the byte offset of lineptr[x]
SlotOffset(x, y, p) == y * p + PixelBytes * x

\* the columns and rows of the followed threads that may pass line 63, and
\* the first column and row after them
ThreadCols(w) == (FirstFollowedBlock(w) * bsize)..w
ThreadRows(h) == 0..h

\* PixelColor, tabulated for these threads
ColorTable ==
    UNION {UNION {{<<w, h, x, y, PixelColor(x, y, w, h)>> :
                      x \in ThreadCols(w), y \in ThreadRows(h)} :
                  h \in Heights} : w \in Widths}

ThreadColor(x, y, w, h) ==
    IF w \in Widths /\ h \in Heights /\ x \in ThreadCols(w) /\ y \in ThreadRows(h)
    THEN (CHOOSE e \in ColorTable :
            e[1] = w /\ e[2] = h /\ e[3] = x /\ e[4] = y)[5]
    ELSE PixelColor(x, y, w, h)

(***************************************************************************)
(* render, lines 90-126.                                                   *)
(***************************************************************************)
\* an abortError that reports and lets the caller go on
abortErrorReturns(next) == pc' = next

\* lines 6-11: the process exits; `next` is where the caller would go on
abortError(next) == pc' = "exited"

\* if (rc) abortError(...)
Check(rc, next) == IF rc THEN abortError(next) ELSE pc' = next

Log(op, err) == steps' = Append(steps, [op |-> op, err |-> err])

\* the call: the arguments, and a buffer of height * stride bytes
Enter(w, h, s, ni, f) ==
    /\ width' = w /\ height' = h /\ stride' = s /\ n_iterations' = ni
    /\ hostFill' = f
    /\ hostBuffer' = [o \in Offsets(w, h, s) |-> f]
    /\ devState' = "none" /\ devBuffer' = <<>> /\ pitch' = 0
    /\ dimGrid' = <<0, 0>> /\ lastError' = FALSE /\ launched' = FALSE
    /\ tdone' = {} /\ kwrites' = {} /\ steps' = <<>>
    /\ pc' = "L97"
    /\ UNCHANGED <<live, uaf, thr, lut>>

\* a caller that renders images of any followed size, one after the other
Call ==
    /\ pc \in {"caller", "returned"}
    /\ \E w \in Widths, h \in Heights, pad \in 0..MaxStridePad,
          ni \in NIterations, f \in HostFills :
            Enter(w, h, PixelBytes * w + pad, ni, f)
    /\ prev' = IF pc = "returned"
               THEN [resized |-> <<width', height'>> # <<width, height>>]
               ELSE <<>>

\* lines 97-99
cudaMallocPitch ==
    /\ pc = "L97"
    /\ \/ /\ \E pad \in 0..MaxPitchPad, g \in GarbageBytes :
               /\ pitch' = PixelBytes * width + pad
               /\ devBuffer' =
                    [o \in Offsets(width, height, PixelBytes * width + pad) |-> g]
          /\ devState' = "live"
          /\ live' = live + 1
          /\ Log("cudaMallocPitch", FALSE)
          /\ Check(FALSE, "L104")
       \/ /\ Log("cudaMallocPitch", TRUE)
          /\ Check(TRUE, "L104")
          /\ UNCHANGED <<pitch, devBuffer, devState, live>>
    /\ UNCHANGED <<width, height, stride, n_iterations, hostBuffer, hostFill,
                   dimGrid, lastError, launched, tdone, kwrites, uaf, prev,
                   thr, lut>>

\* lines 103-111: the launch is asynchronous and returns no code
Launch ==
    /\ pc = "L104"
    /\ dimGrid' = <<GridDim(width), GridDim(height)>>
    /\ \E err \in BOOLEAN : lastError' = err /\ launched' = ~err
    /\ Log("mykernel", FALSE)
    /\ pc' = "L113"
    /\ UNCHANGED <<width, height, stride, n_iterations, hostBuffer, hostFill,
                   devState, devBuffer, pitch, tdone, kwrites, live, uaf,
                   prev, thr, lut>>

\* lines 113-114
cudaPeekAtLastError ==
    /\ pc = "L113"
    /\ Log("cudaPeekAtLastError", lastError)
    /\ Check(lastError, "L118")
    /\ UNCHANGED <<width, height, stride, n_iterations, hostBuffer, hostFill,
                   devState, devBuffer, pitch, dimGrid, lastError, launched,
                   tdone, kwrites, live, uaf, prev, thr, lut>>

\* lines 57-88: one thread of the grid, from its first statement to its last
mykernel(t) ==
    /\ launched
    /\ pc \in {"L113", "L118"}
    /\ t \in Threads(width, dimGrid) \ tdone
    /\ tdone' = tdone \cup {t}
    /\ LET x == ThreadX(t)
           y == ThreadY(t)
       IN  IF OutOfImage(x, y, width, height)
           THEN UNCHANGED <<devBuffer, kwrites, uaf>>
           ELSE LET color == ThreadColor(x, y, width, height)
                    off == SlotOffset(x, y, pitch)
                IN  /\ devBuffer' =
                         [o \in DOMAIN devBuffer |->
                            IF o - off \in 0..(PixelBytes - 1)
                            THEN Channel(color, o - off) ELSE devBuffer[o]]
                    /\ kwrites' = kwrites \cup
                         {[off |-> off, t |-> t, color |-> color]}
                    /\ uaf' = (uaf \/ devState # "live")
    /\ UNCHANGED <<pc, width, height, stride, n_iterations, hostBuffer,
                   hostFill, devState, pitch, dimGrid, lastError, launched,
                   steps, live, prev, thr, lut>>

\* a flat copy, as memcpy would make it
MemcpyFlat(dst, dpitch, src, spitch, wbytes, h) ==
    [o \in DOMAIN dst |-> IF o \in DOMAIN src THEN src[o] ELSE dst[o]]

\* cudaMemcpy2D(dst, dpitch, src, spitch, width, height, DeviceToHost)
Memcpy2D(dst, dpitch, src, spitch, wbytes, h) ==
    [o \in DOMAIN dst |->
        IF o \div dpitch < h /\ o % dpitch < wbytes
        THEN src[(o \div dpitch) * spitch + (o % dpitch)] ELSE dst[o]]

\* lines 118-120: the copy waits for the kernel
cudaMemcpy2D ==
    /\ pc = "L118"
    /\ launched => tdone = Threads(width, dimGrid)
    /\ \/ /\ hostBuffer' = Memcpy2D(hostBuffer, stride, devBuffer, pitch,
                                    width * PixelBytes, height)
          /\ uaf' = (uaf \/ devState # "live")
          /\ Log("cudaMemcpy2D", FALSE)
          /\ Check(FALSE, "L123")
       \/ /\ Log("cudaMemcpy2D", TRUE)
          /\ Check(TRUE, "L123")
          /\ UNCHANGED <<hostBuffer, uaf>>
    /\ UNCHANGED <<width, height, stride, n_iterations, hostFill, devState,
                   devBuffer, pitch, dimGrid, lastError, launched, tdone,
                   kwrites, live, prev, thr, lut>>

\* a cudaFree that reports success and releases nothing
cudaFreeLeaks ==
    /\ pc = "L123"
    /\ Log("cudaFree", FALSE)
    /\ Check(FALSE, "returned")
    /\ UNCHANGED <<width, height, stride, n_iterations, hostBuffer, hostFill,
                   devState, live, devBuffer, pitch, dimGrid, lastError,
                   launched, tdone, kwrites, uaf, prev, thr, lut>>

\* lines 123-125
cudaFree ==
    /\ pc = "L123"
    /\ \/ /\ devState' = "freed"
          /\ live' = live - 1
          /\ Log("cudaFree", FALSE)
          /\ Check(FALSE, "returned")
       \/ /\ Log("cudaFree", TRUE)
          /\ Check(TRUE, "returned")
          /\ UNCHANGED <<devState, live>>
    /\ UNCHANGED <<width, height, stride, n_iterations, hostBuffer, hostFill,
                   devBuffer, pitch, dimGrid, lastError, launched, tdone,
                   kwrites, uaf, prev, thr, lut>>

Render ==
    \/ cudaMallocPitch
    \/ Launch
    \/ cudaPeekAtLastError
    \/ \E t \in Threads(width, dimGrid) : mykernel(t)
    \/ cudaMemcpy2D
    \/ cudaFree

Init == RenderIdle /\ ThrIdle /\ LutIdle
Next == Call \/ Render
Spec == Init /\ [][Next]_vars

(***************************************************************************)
(* PairSpec: a caller that renders an image and then renders it again into *)
(* a buffer like the first, with any n_iterations, keeping the first       *)
(* result.                                                                 *)
(***************************************************************************)
FirstCall ==
    /\ pc = "caller"
    /\ \E w \in Widths, h \in Heights, pad \in 0..MaxStridePad,
          ni \in NIterations, f \in HostFills :
            Enter(w, h, PixelBytes * w + pad, ni, f)
    /\ UNCHANGED prev

SecondCall ==
    /\ pc = "returned"
    /\ prev = <<>>
    /\ \E ni \in NIterations : Enter(width, height, stride, ni, hostFill)
    /\ prev' = [width |-> width, height |-> height, stride |-> stride,
                n_iterations |-> n_iterations, hostFill |-> hostFill,
                hostBuffer |-> hostBuffer]

PairNext == FirstCall \/ SecondCall \/ Render
PairSpec == Init /\ [][PairNext]_vars

(***************************************************************************)
(* Properties of render and of the kernel grid (Spec, PairSpec).           *)
(***************************************************************************)
Channels == 0..(PixelBytes - 1)
Ops == [j \in 1..Len(steps) |-> steps[j].op]
OpCount(op) == Cardinality({j \in 1..Len(steps) : steps[j].op = op})
KernelFinished == launched /\ tdone = Threads(width, dimGrid)
NarrowImage == width <= MaxWidth

FailFast ==
    /\ \A j \in 1..Len(steps) :
          steps[j].err => (j = Len(steps) /\ pc = "exited")
    /\ pc = "exited" => (Len(steps) > 0 /\ steps[Len(steps)].err)
    /\ \A j, k \in 1..Len(steps) : j < k => steps[j].op # steps[k].op
    /\ pc = "returned" =>
          /\ {"cudaMallocPitch", "cudaPeekAtLastError", "cudaMemcpy2D",
              "cudaFree"} \subseteq {steps[j].op : j \in 1..Len(steps)}
          /\ \A j \in 1..Len(steps) : ~steps[j].err

\* the copy back failed and the process exited without freeing
FailFastWitness ==
    /\ pc = "exited" /\ Len(steps) = 4
    /\ steps[4] = [op |-> "cudaMemcpy2D", err |-> TRUE]
    /\ devState = "live"

\* C4: a render that has returned allocated its device buffer once and
\* freed it once, in the order allocate, launch, copy back, free, and never
\* accessed it while it was not allocated; between renders, of whatever
\* sizes, no device buffer is live.
AllocatedAndFreedOnce ==
    /\ pc = "returned" =>
          /\ OpCount("cudaMallocPitch") = 1 /\ OpCount("cudaFree") = 1
          /\ \E a, l, c, f \in 1..Len(steps) :
                /\ a < l /\ l < c /\ c < f
                /\ Ops[a] = "cudaMallocPitch" /\ Ops[l] = "mykernel"
                /\ Ops[c] = "cudaMemcpy2D" /\ Ops[f] = "cudaFree"
          /\ devState = "freed"
          /\ ~uaf
    /\ pc \in {"caller", "returned"} => live = 0
    /\ live \in {0, 1}

\* a second render, of another size than the first, has returned
AllocatedAndFreedOnceWitness ==
    /\ pc = "returned" /\ prev # <<>> /\ prev.resized
    /\ devState = "freed" /\ live = 0

\* C7: every slot (x,y) of the image is stored to exactly once, by the
\* thread whose coordinates are (x,y); no two threads store to the same
\* slot; when the kernel has finished no slot of the image is unwritten.
EverySlotWrittenOnce ==
    /\ \A wr \in kwrites :
          /\ wr.off = SlotOffset(ThreadX(wr.t), ThreadY(wr.t), pitch)
          /\ ThreadX(wr.t) < width /\ ThreadY(wr.t) < height
    /\ \A wr1, wr2 \in kwrites : wr1.off = wr2.off => wr1.t = wr2.t
    /\ KernelFinished =>
          \A x \in FollowedCols(width), y \in 0..(height - 1) :
             Cardinality({wr \in kwrites : wr.off = SlotOffset(x, y, pitch)}) = 1

\* C7 for the images of at most MaxWidth columns
EverySlotWrittenOnceNarrow == NarrowImage => EverySlotWrittenOnce

\* C8: no byte outside rows 0..height-1 and byte columns 0..4*width-1 of
\* the device buffer is ever stored to by the kernel, and a finished thread
\* with x >= width or y >= height has stored nothing.
NoWriteOutsideImage ==
    /\ \A wr \in kwrites : \A k \in Channels :
          /\ wr.off + k >= 0
          /\ (wr.off + k) \div pitch < height
          /\ (wr.off + k) % pitch < PixelBytes * width
    /\ \A t \in tdone :
          (ThreadX(t) >= width \/ ThreadY(t) >= height)
             => \A wr \in kwrites : wr.t # t

\* threads right of and below a padded image have returned
NoWriteOutsideImageWitness ==
    /\ \E t \in tdone : ThreadX(t) >= width /\ ThreadY(t) < height
    /\ \E t \in tdone : ThreadY(t) >= height
    /\ pitch > PixelBytes * width
    /\ kwrites # {}

\* C5: two renders that differ only in n_iterations leave byte-identical
\* host buffers.
NIterationsInert ==
    (/\ pc = "returned" /\ prev # <<>>
     /\ prev.width = width /\ prev.height = height /\ prev.stride = stride
     /\ prev.hostFill = hostFill /\ prev.n_iterations # n_iterations)
        => hostBuffer = prev.hostBuffer

\* C5 for the images of at most MaxWidth columns
NIterationsInertNarrow == NarrowImage => NIterationsInert

\* C6: two renders of the same width and height leave the same bytes in
\* every pixel, whatever the order of the threads in each.
RenderIdempotent ==
    (/\ pc = "returned" /\ prev # <<>>
     /\ prev.width = width /\ prev.height = height)
        => \A x \in FollowedCols(width), y \in 0..(height - 1), k \in Channels :
              hostBuffer[y * stride + PixelBytes * x + k]
                = prev.hostBuffer[y * prev.stride + PixelBytes * x + k]

\* C6 for the images of at most MaxWidth columns
RenderIdempotentNarrow == NarrowImage => RenderIdempotent

(***************************************************************************)
(* Properties of one thread (KernelSpec).                                  *)
(***************************************************************************)
InLoop == thr.pc \in {"L76", "L83"} \/ (thr.pc = "ret" /\ "i" \in DOMAIN thr)

\* C9: the escape loop of an in-range thread takes at most 100 turns, its
\* count i stays in 0..100, it takes a turn only while |z|^2 < 4 and
\* i < 100, and it is left exactly when |z|^2 >= 4 or i = 100.
EscapeLoopBounded ==
    InLoop =>
        /\ thr.x < thr.width /\ thr.y < thr.height
        /\ thr.i \in 0..100 /\ thr.iters = thr.i
        /\ thr.i > 0 =>
              FMul(thr.pmx, thr.pmx) + FMul(thr.pmy, thr.pmy) < 4 * One
        /\ thr.pc \in {"L83", "ret"} =>
              (FMul(thr.mx, thr.mx) + FMul(thr.my, thr.my) >= 4 * One
                  \/ thr.i = 100)
        /\ (thr.pc = "L76"
              /\ FMul(thr.mx, thr.mx) + FMul(thr.my, thr.my) < 4 * One
              /\ thr.i < 100) => ENABLED KLoopIter

\* a thread whose point never escapes has stored after 100 turns, and
\* another left the loop early
EscapeLoopBoundedWitness ==
    /\ thr.pc = "ret" /\ "i" \in DOMAIN thr
    /\ thr.i = 100 /\ thr.iters = 100
    /\ FMul(thr.mx, thr.mx) + FMul(thr.my, thr.my) < 4 * One

(***************************************************************************)
(* Properties of heat_lut and of the normalisation (LutSpec).              *)
(***************************************************************************)
Trunc(a, b) == a \div b
Round(a, b) == (2 * a + b) \div (2 * b)

\* the four bands of the table at p/q, each ramp cast by `cast`
BandTable(x, cast(_, _)) ==
    LET p == x[1]
        q == x[2]
    IN  IF 4 * p < q
        THEN [r |-> 0, g |-> cast(4 * 255 * p, q), b |-> 255, a |-> 255]
        ELSE IF 2 * p < q
        THEN [r |-> 0, g |-> 255, b |-> cast(2 * 255 * (q - 2 * p), q),
              a |-> 255]
        ELSE IF 4 * p < 3 * q
        THEN [r |-> cast(2 * 255 * (2 * p - q), q), g |-> 255, b |-> 0,
              a |-> 255]
        ELSE [r |-> 0, g |-> cast(4 * 255 * (q - p), q), b |-> 0, a |-> 255]

BandEdges(x, color) ==
    /\ x[1] = 0 => color = [r |-> 0, g |-> 0, b |-> 255, a |-> 255]
    /\ 4 * x[1] = x[2] => color = [r |-> 0, g |-> 255, b |-> 255, a |-> 255]
    /\ 2 * x[1] = x[2] => color = [r |-> 0, g |-> 255, b |-> 0, a |-> 255]
    /\ 4 * x[1] = 3 * x[2] => color = [r |-> 0, g |-> 255, b |-> 0, a |-> 255]

OnGrid == lut.pc = "ret" /\ lut.src = "grid"

\* C2, as the source computes it: for every x of the grid heat_lut(x) is
\* the colour of the four-band table, each ramp value the integer part of
\* distance / 0.25 * 255, alpha 255, with the four band edge colours.
HeatLutTruncates ==
    OnGrid =>
        /\ lut.color = BandTable(lut.x, Trunc)
        /\ lut.color.a = 255
        /\ BandEdges(lut.x, lut.color)

\* C2: for every x of the grid heat_lut(x) is the colour of the four-band
\* table, each ramp value round(distance / 0.25 * 255), alpha 255, with
\* the four band edge colours.
HeatLutRounds ==
    OnGrid =>
        /\ lut.color = BandTable(lut.x, Round)
        /\ lut.color.a = 255
        /\ BandEdges(lut.x, lut.color)

\* heat_lut(1/7): 1/7 / 0.25 * 255 = 145.71..., and the green is 145
HeatLutTruncatesWitness ==
    /\ OnGrid /\ lut.x = <<1, 7>>
    /\ lut.color = [r |-> 0, g |-> 145, b |-> 255, a |-> 255]

\* C10: for every count i in 0..100, v = 255*i/100 is an integer in
\* 0..255, clamp(v, 0, 255, 0, 1) is v/255 and lies in [0,1], it is 1
\* exactly when i = 100, and the assertion of heat_lut holds for it.
NormalisedInRange ==
    lut.src = "count" =>
        /\ lut.pc # "assert_failed"
        /\ "v" \in DOMAIN lut =>
              /\ lut.v \in 0..255
              /\ lut.v * 100 <= 255 * lut.i /\ 255 * lut.i < (lut.v + 1) * 100
        /\ "x" \in DOMAIN lut =>
              /\ lut.x[2] > 0
              /\ lut.x[1] * 255 = lut.v * lut.x[2]
              /\ 0 <= lut.x[1] /\ lut.x[1] <= lut.x[2]
              /\ (lut.x[1] = lut.x[2]) <=> (lut.i = 100)

\* the count 100 went through the assertion and got its colour
NormalisedInRangeWitness ==
    /\ lut.pc = "ret" /\ lut.src = "count"
    /\ lut.i = 100 /\ lut.v = 255 /\ lut.x = <<1, 1>>

====
